---- MODULE Spec2Model ----
(***************************************************************************)
(* One run of the bbrpy command line (cli.py) on one host: the `info` and  *)
(* `report` commands, the format registry, and the powercfg acquirer of    *)
(* generator.py with its temporary directory.                              *)
(***************************************************************************)
EXTENDS Integers, Sequences, FiniteSets, TLC

VARIABLES argv, host, parent_kind, dir_created, artifacts, temp_dir, temp_file,
          pc, caller, format_enum, output_path, final_path, returncode, pending,
          content, report_obj, stdout, calls, exit_code, exc

vars == <<argv, host, parent_kind, dir_created, artifacts, temp_dir, temp_file,
          pc, caller, format_enum, output_path, final_path, returncode, pending,
          content, report_obj, stdout, calls, exit_code, exc>>

----------------------------------------------------------------------------
(* Strings that the code transforms are sequences of characters.           *)

Uppers == <<"A","B","C","D","E","F","G","H","I","J","K","L","M",
            "N","O","P","Q","R","S","T","U","V","W","X","Y","Z">>
Lowers == <<"a","b","c","d","e","f","g","h","i","j","k","l","m",
            "n","o","p","q","r","s","t","u","v","w","x","y","z">>

LowerChar(c) ==
    IF \E i \in 1..Len(Uppers) : Uppers[i] = c
    THEN Lowers[CHOOSE i \in 1..Len(Uppers) : Uppers[i] = c]
    ELSE c

\* str.lower() without the conversion (the comparison becomes case-sensitive)
lower_identity(s) == s

\* str.lower()
lower(s) == [i \in 1..Len(s) |-> LowerChar(s[i])]

----------------------------------------------------------------------------
(* class ReportFormat(str, Enum), cli.py                                   *)

ReportFormat == {"BETTER", "DEFAULT", "RAW"}

ReportFormatValue(m) ==
    CASE m = "BETTER"  -> <<"b","e","t","t","e","r">>
      [] m = "DEFAULT" -> <<"d","e","f","a","u","l","t">>
      [] m = "RAW"     -> <<"r","a","w">>

extension(self) ==
    IF self \in {"BETTER", "DEFAULT"} THEN ".html"
    ELSE IF self = "RAW" THEN ".xml"
    ELSE ""

\* needs_report_obj widened to every html format
needs_report_obj_html(self) == self \in {"BETTER", "DEFAULT"}

needs_report_obj(self) == self = "BETTER"

browser_viewable(self) == self \in {"BETTER", "DEFAULT"}

(* class ReportFormat(str, Enum), formats.py                               *)

formats_ReportFormat == {"BETTER", "DEFAULT", "RAW"}

formats_ReportFormatValue(m) ==
    CASE m = "BETTER"  -> <<"b","e","t","t","e","r">>
      [] m = "DEFAULT" -> <<"d","e","f","a","u","l","t">>
      [] m = "RAW"     -> <<"r","a","w">>

\* extension with the RAW branch returning the html suffix
formats_extension_allhtml(self) ==
    IF self \in {"BETTER", "DEFAULT"} THEN ".html"
    ELSE IF self = "RAW" THEN ".html"
    ELSE ""

formats_extension(self) ==
    IF self \in {"BETTER", "DEFAULT"} THEN ".html"
    ELSE IF self = "RAW" THEN ".xml"
    ELSE ""

formats_needs_report_obj(self) == self = "BETTER"

formats_browser_viewable(self) == self \in {"BETTER", "DEFAULT"}

\* ReportFormat(value): the member with that value, or ValueError
ReportFormatLookup(value) ==
    IF \E m \in ReportFormat : ReportFormatValue(m) = value
    THEN CHOOSE m \in ReportFormat : ReportFormatValue(m) = value
    ELSE "ValueError"

\* _validate_report_format: the member, or "ValueError" (reported, Exit(1))
validate_report_format(format_str) == ReportFormatLookup(lower(format_str))

\* FORMAT_HANDLERS: the registry, as the set of (format, handler) pairs
FORMAT_HANDLERS ==
    { <<"BETTER", "_generate_better_report">>,
      <<"DEFAULT", "_generate_default_report">>,
      <<"RAW", "_generate_raw_report">> }

HandlerOf(f) == (CHOOSE e \in FORMAT_HANDLERS : e[1] = f)[2]

----------------------------------------------------------------------------
(* pathlib.Path: absolute or not, the parent directory, the stem and the   *)
(* last suffix of the name                                                 *)

resolve(p) == [p EXCEPT !.abs = TRUE]

with_suffix(p, suffix) == [p EXCEPT !.suffix = suffix]

----------------------------------------------------------------------------
(* generator.py                                                            *)

is_platform_windows(system) == system = "Windows"

\* keyword parameters the public generator functions declare
generate_battery_report_xml_params == {}
generate_battery_report_html_params == {}

\* binding a call: a keyword the function does not declare is a TypeError
BindCall(kwargs, params) == IF kwargs \subseteq params THEN "None" ELSE "TypeError"

\* subprocess.run(..., check=False): the exit status is ignored
check_ignored(rc) == "None"

\* subprocess.run(..., check=True)
check_returncode(rc) == IF rc # 0 THEN "CalledProcessError" ELSE "None"

\* what powercfg does on this host: exit status and the file it leaves
PowercfgKinds ==
    {"ok", "badxml", "undecodable", "nofile", "fails", "fails_partial",
     "fails_full", "notfound"}

PowercfgReturncode(kind) == IF kind \in {"fails", "fails_partial", "fails_full"} THEN 1 ELSE 0

PowercfgFile(kind) ==
    CASE kind \in {"ok", "fails_full"} -> "xml"
      [] kind = "badxml"               -> "badxml"
      [] kind = "undecodable"          -> "bytes"
      [] kind = "fails_partial"        -> "partial"
      [] OTHER                         -> "none"

\* filepath.read_text("utf-8")
read_text(file) ==
    CASE file = "none"  -> "FileNotFoundError"
      [] file = "bytes" -> "UnicodeDecodeError"
      [] OTHER          -> "None"

\* leaving the TemporaryDirectory block only on a normal return
cleanup_on_success(outcome, present) == IF outcome = "None" THEN FALSE ELSE present

\* TemporaryDirectory.__exit__: is the location still present afterwards
cleanup(outcome, present) == FALSE

----------------------------------------------------------------------------
(* try/except tables                                                       *)

get_battery_report_catches(e) == e = "PlatformError"

\* _generate_better_report without its try/except
better_report_catches_nothing(e) == FALSE

better_report_catches(e) == e = "ImportError"

webbrowser_open(log) == Append(log, "webbrowser.open")

----------------------------------------------------------------------------
(* Inputs of a run: the command line and the host                          *)

FormatInputs ==
    { <<"b","e","t","t","e","r">>, <<"B","E","T","T","E","R">>, <<"B","e","t","t","e","r">>,
      <<"d","e","f","a","u","l","t">>, <<"D","E","F","A","U","L","T">>,
      <<"r","a","w">>, <<"R","A","W">>, <<"R","a","w">>, <<"r","A","w">>,
      <<"b","o","g","u","s">>, <<"s","t","a","n","d","a","r","d">>,
      <<"r","a","w","w">>, <<"r","a">>, <<>> }

DefaultFormat == <<"b","e","t","t","e","r">>

DefaultOutput == [abs |-> FALSE, dir |-> "./reports", stem |-> "battery_report", suffix |-> ""]

OutputInputs ==
    { DefaultOutput,
      [abs |-> FALSE, dir |-> "./out", stem |-> "batt", suffix |-> ""],
      [abs |-> TRUE,  dir |-> "/tmp/out", stem |-> "batt", suffix |-> ".txt"] }

Systems == {"Windows", "Linux", "Darwin"}

\* the telemetry a well-formed snapshot of this host carries
XmlData ==
    [ComputerName |-> "HOST", LocalScanTime |-> "2024-01-01T00:00:00",
     DesignCapacity |-> 50000, FullChargeCapacity |-> 48000]

NoPath == <<>>

Msg(label, value) == [label |-> label, value |-> value]

Init ==
    /\ argv \in [version : BOOLEAN, cmd : {"info", "report"},
                 format : FormatInputs, output : OutputInputs]
    /\ argv.cmd = "info" => argv.format = DefaultFormat /\ argv.output = DefaultOutput
    /\ host \in [system : Systems, renderer : BOOLEAN, powercfg : PowercfgKinds]
    /\ parent_kind \in {"absent", "dir", "file"}
    /\ dir_created = FALSE
    /\ artifacts = {}
    /\ temp_dir = FALSE
    /\ temp_file = "none"
    /\ pc = "main"
    /\ caller = "None"
    /\ format_enum = "None"
    /\ output_path = NoPath
    /\ final_path = NoPath
    /\ returncode = -1
    /\ pending = "None"
    /\ content = "None"
    /\ report_obj = <<>>
    /\ stdout = <<>>
    /\ calls = <<>>
    /\ exit_code = -1
    /\ exc = "None"

\* an exception nobody catches ends the process with status 1
Crash(e) ==
    /\ pc' = "done"
    /\ exit_code' = 1
    /\ exc' = e

\* raise typer.Exit(code) after printing msgs
Exit(code, msgs) ==
    /\ pc' = "done"
    /\ exit_code' = code
    /\ exc' = "Exit"
    /\ stdout' = stdout \o msgs

\* an exception e leaving the acquirer: _get_battery_report has the only
\* try/except above it; a handler that called the generator has none
RaiseInSupplier(e) ==
    IF caller # "handler" /\ get_battery_report_catches(e)
    THEN Exit(1, <<Msg("Error", <<e>>)>>)
    ELSE Crash(e) /\ UNCHANGED stdout

\* main callback with _display_version
Callback ==
    /\ pc = "main"
    /\ calls' = Append(calls, "main")
    /\ IF argv.version
       THEN Exit(0, <<Msg("bbrpy", <<"__version__">>)>>)
       ELSE /\ pc' = argv.cmd
            /\ UNCHANGED <<stdout, exit_code, exc>>
    /\ UNCHANGED <<argv, host, parent_kind, dir_created, artifacts, temp_dir, temp_file,
                   caller, format_enum, output_path, final_path, returncode, pending,
                   content, report_obj>>

\* info(): line 151
Info ==
    /\ pc = "info"
    /\ caller' = "info"
    /\ pc' = "get_report"
    /\ calls' = Append(calls, "info")
    /\ UNCHANGED <<argv, host, parent_kind, dir_created, artifacts, temp_dir, temp_file,
                   format_enum, output_path, final_path, returncode, pending,
                   content, report_obj, stdout, exit_code, exc>>

\* report(): line 174, _validate_report_format
Validate ==
    /\ pc = "report"
    /\ calls' = Append(calls, "_validate_report_format")
    /\ LET r == validate_report_format(argv.format) IN
       IF r = "ValueError"
       THEN /\ Exit(1, <<Msg("Invalid format",
                            <<argv.format, {ReportFormatValue(f) : f \in ReportFormat}>>)>>)
            /\ UNCHANGED format_enum
       ELSE /\ format_enum' = r
            /\ pc' = "mkdir"
            /\ UNCHANGED <<stdout, exit_code, exc>>
    /\ UNCHANGED <<argv, host, parent_kind, dir_created, artifacts, temp_dir, temp_file,
                   caller, output_path, final_path, returncode, pending,
                   content, report_obj>>

\* report(): lines 177-178
Mkdir ==
    /\ pc = "mkdir"
    /\ output_path' = <<resolve(argv.output)>>
    /\ calls' = Append(calls, "mkdir")
    /\ IF parent_kind = "file"
       THEN /\ Crash("FileExistsError")
            /\ UNCHANGED <<parent_kind, dir_created>>
       ELSE /\ parent_kind' = "dir"
            /\ dir_created' = (parent_kind = "absent")
            /\ pc' = "dispatch"
            /\ UNCHANGED <<exit_code, exc>>
    /\ UNCHANGED <<argv, host, artifacts, temp_dir, temp_file,
                   caller, format_enum, final_path, returncode, pending,
                   content, report_obj, stdout>>

\* report(): lines 181-189, the branch on needs_report_obj
Dispatch ==
    /\ pc = "dispatch"
    /\ caller' = "report"
    /\ pc' = IF needs_report_obj(format_enum) THEN "get_report" ELSE "handler"
    /\ calls' = Append(calls, "dispatch")
    /\ UNCHANGED <<argv, host, parent_kind, dir_created, artifacts, temp_dir, temp_file,
                   format_enum, output_path, final_path, returncode, pending,
                   content, report_obj, stdout, exit_code, exc>>

\* keyword arguments BatteryReport.generate passes to generate_battery_report_xml
BatteryReport_generate_kwargs == {}

\* _get_battery_report -> BatteryReport.generate -> generate_battery_report_xml
GetBatteryReport ==
    /\ pc = "get_report"
    /\ calls' = calls \o <<"_get_battery_report", "generate_battery_report_xml">>
    /\ LET b == BindCall(BatteryReport_generate_kwargs, generate_battery_report_xml_params) IN
       IF b = "None"
       THEN /\ pc' = "acq_platform"
            /\ UNCHANGED <<stdout, exit_code, exc>>
       ELSE RaiseInSupplier(b)
    /\ UNCHANGED <<argv, host, parent_kind, dir_created, artifacts, temp_dir, temp_file,
                   caller, format_enum, output_path, final_path, returncode, pending,
                   content, report_obj>>

----------------------------------------------------------------------------
(* _generate_battery_report, generator.py lines 43-70                      *)

\* lines 57-61
PlatformCheck ==
    /\ pc = "acq_platform"
    /\ calls' = Append(calls, "is_platform_windows")
    /\ IF is_platform_windows(host.system)
       THEN /\ pc' = "acq_mkdtemp"
            /\ UNCHANGED <<stdout, exit_code, exc>>
       ELSE RaiseInSupplier("PlatformError")
    /\ UNCHANGED <<argv, host, parent_kind, dir_created, artifacts, temp_dir, temp_file,
                   caller, format_enum, output_path, final_path, returncode, pending,
                   content, report_obj>>

\* line 63: entering the TemporaryDirectory block
MkTemp ==
    /\ pc = "acq_mkdtemp"
    /\ temp_dir' = TRUE
    /\ pc' = "acq_subprocess"
    /\ calls' = Append(calls, "TemporaryDirectory")
    /\ UNCHANGED <<argv, host, parent_kind, dir_created, artifacts, temp_file,
                   caller, format_enum, output_path, final_path, returncode, pending,
                   content, report_obj, stdout, exit_code, exc>>

\* lines 64-69: subprocess.run(cmd, stdout=DEVNULL, check=True)
RunPowercfg ==
    /\ pc = "acq_subprocess"
    /\ calls' = Append(calls, "subprocess.run")
    /\ IF host.powercfg = "notfound"
       THEN /\ pending' = "FileNotFoundError"
            /\ pc' = "acq_cleanup"
            /\ UNCHANGED <<returncode, temp_file>>
       ELSE /\ returncode' = PowercfgReturncode(host.powercfg)
            /\ temp_file' = PowercfgFile(host.powercfg)
            /\ pending' = check_returncode(PowercfgReturncode(host.powercfg))
            /\ pc' = IF check_returncode(PowercfgReturncode(host.powercfg)) = "None"
                     THEN "acq_read" ELSE "acq_cleanup"
    /\ UNCHANGED <<argv, host, parent_kind, dir_created, artifacts, temp_dir,
                   caller, format_enum, output_path, final_path,
                   content, report_obj, stdout, exit_code, exc>>

\* line 70: filepath.read_text("utf-8")
ReadText ==
    /\ pc = "acq_read"
    /\ calls' = Append(calls, "read_text")
    /\ pending' = read_text(temp_file)
    /\ content' = IF read_text(temp_file) = "None" THEN temp_file ELSE content
    /\ pc' = "acq_cleanup"
    /\ UNCHANGED <<argv, host, parent_kind, dir_created, artifacts, temp_dir, temp_file,
                   caller, format_enum, output_path, final_path, returncode,
                   report_obj, stdout, exit_code, exc>>

\* leaving the TemporaryDirectory block, by return or by exception
Cleanup ==
    /\ pc = "acq_cleanup"
    /\ calls' = Append(calls, "TemporaryDirectory.cleanup")
    /\ temp_dir' = cleanup(pending, temp_dir)
    /\ temp_file' = IF cleanup(pending, temp_dir) THEN temp_file ELSE "none"
    /\ IF pending = "None"
       THEN /\ pc' = IF caller = "handler" THEN "success_msg" ELSE "parse"
            /\ final_path' = IF caller = "handler"
                             THEN <<with_suffix(output_path[1], extension(format_enum))>>
                             ELSE final_path
            /\ UNCHANGED <<stdout, exit_code, exc>>
       ELSE /\ RaiseInSupplier(pending)
            /\ UNCHANGED final_path
    /\ UNCHANGED <<argv, host, parent_kind, dir_created, artifacts,
                   caller, format_enum, output_path, returncode, pending,
                   content, report_obj>>

\* BatteryReport.generate: the parser applied to the content acquired
BatteryReport_parse(text) == IF text = "xml" THEN "None" ELSE "ParseError"

\* BatteryReport.generate returning to _get_battery_report and its caller
Parse ==
    /\ pc = "parse"
    /\ calls' = Append(calls, "BatteryReport.parse")
    /\ IF BatteryReport_parse(content) = "None"
       THEN /\ report_obj' = <<XmlData>>
            /\ pc' = IF caller = "info" THEN "info_print" ELSE "handler"
            /\ UNCHANGED <<stdout, exit_code, exc>>
       ELSE /\ RaiseInSupplier(BatteryReport_parse(content))
            /\ UNCHANGED report_obj
    /\ UNCHANGED <<argv, host, parent_kind, dir_created, artifacts, temp_dir, temp_file,
                   caller, format_enum, output_path, final_path, returncode, pending,
                   content>>

----------------------------------------------------------------------------
(* cli.py: info, the three handlers and the end of report                  *)

\* info(): lines 152-153
InfoPrint ==
    /\ pc = "info_print"
    /\ stdout' = stdout \o
          << Msg("Scan Time", <<report_obj[1].LocalScanTime>>),
             Msg("Capacity Status",
                 <<report_obj[1].FullChargeCapacity, report_obj[1].DesignCapacity>>) >>
    /\ calls' = Append(calls, "info_print")
    /\ pc' = "done"
    /\ exit_code' = 0
    /\ UNCHANGED <<argv, host, parent_kind, dir_created, artifacts, temp_dir, temp_file,
                   caller, format_enum, output_path, final_path, returncode, pending,
                   content, report_obj, exc>>

\* _generate_better_report: lines 83-91
BetterImport ==
    /\ pc = "handler"
    /\ HandlerOf(format_enum) = "_generate_better_report"
    /\ calls' = calls \o <<"_generate_better_report", "import plotly">>
    /\ IF host.renderer
       THEN /\ pc' = "better_render"
            /\ UNCHANGED <<stdout, exit_code, exc>>
       ELSE IF better_report_catches("ImportError")
            THEN Exit(1, <<Msg("Error", <<"Missing extra dependencies">>)>>)
            ELSE Crash("ImportError") /\ UNCHANGED stdout
    /\ UNCHANGED <<argv, host, parent_kind, dir_created, artifacts, temp_dir, temp_file,
                   caller, format_enum, output_path, final_path, returncode, pending,
                   content, report_obj>>

\* _generate_better_report: lines 94-109; the renderer may raise
BetterRender ==
    /\ pc = "better_render"
    /\ calls' = Append(calls, "write_html")
    /\ \E rendered \in BOOLEAN :
         IF rendered
         THEN /\ artifacts' = artifacts \cup {with_suffix(output_path[1], extension("BETTER"))}
              /\ final_path' = <<with_suffix(output_path[1], extension("BETTER"))>>
              /\ pc' = "success_msg"
              /\ UNCHANGED <<exit_code, exc>>
         ELSE /\ Crash("RendererError")
              /\ UNCHANGED <<artifacts, final_path>>
    /\ UNCHANGED <<argv, host, parent_kind, dir_created, temp_dir, temp_file,
                   caller, format_enum, output_path, returncode, pending,
                   content, report_obj, stdout>>

\* _generate_default_report: lines 112-116; the call passes output_path=final_path
DefaultHandler ==
    /\ pc = "handler"
    /\ HandlerOf(format_enum) = "_generate_default_report"
    /\ calls' = calls \o <<"_generate_default_report", "generate_battery_report_html">>
    /\ IF BindCall({"output_path"}, generate_battery_report_html_params) = "None"
       THEN /\ caller' = "handler"
            /\ pc' = "acq_platform"
            /\ UNCHANGED <<exit_code, exc>>
       ELSE /\ Crash(BindCall({"output_path"}, generate_battery_report_html_params))
            /\ UNCHANGED caller
    /\ UNCHANGED <<argv, host, parent_kind, dir_created, artifacts, temp_dir, temp_file,
                   format_enum, output_path, final_path, returncode, pending,
                   content, report_obj, stdout>>

\* _generate_raw_report: lines 119-123; the call passes output_path=final_path
RawHandler ==
    /\ pc = "handler"
    /\ HandlerOf(format_enum) = "_generate_raw_report"
    /\ calls' = calls \o <<"_generate_raw_report", "generate_battery_report_xml">>
    /\ IF BindCall({"output_path"}, generate_battery_report_xml_params) = "None"
       THEN /\ caller' = "handler"
            /\ pc' = "acq_platform"
            /\ UNCHANGED <<exit_code, exc>>
       ELSE /\ Crash(BindCall({"output_path"}, generate_battery_report_xml_params))
            /\ UNCHANGED caller
    /\ UNCHANGED <<argv, host, parent_kind, dir_created, artifacts, temp_dir, temp_file,
                   format_enum, output_path, final_path, returncode, pending,
                   content, report_obj, stdout>>

\* report(): line 192
SuccessMessage ==
    /\ pc = "success_msg"
    /\ stdout' = Append(stdout, Msg("Report generated successfully at", final_path))
    /\ calls' = Append(calls, "print_success")
    /\ pc' = "browser"
    /\ UNCHANGED <<argv, host, parent_kind, dir_created, artifacts, temp_dir, temp_file,
                   caller, format_enum, output_path, final_path, returncode, pending,
                   content, report_obj, exit_code, exc>>

\* report(): lines 195-196, then the command returns
OpenBrowser ==
    /\ pc = "browser"
    /\ calls' = IF browser_viewable(format_enum) THEN webbrowser_open(calls) ELSE calls
    /\ pc' = "done"
    /\ exit_code' = 0
    /\ UNCHANGED <<argv, host, parent_kind, dir_created, artifacts, temp_dir, temp_file,
                   caller, format_enum, output_path, final_path, returncode, pending,
                   content, report_obj, stdout, exc>>

Next ==
    \/ Callback \/ Info \/ Validate \/ Mkdir \/ Dispatch \/ GetBatteryReport
    \/ PlatformCheck \/ MkTemp \/ RunPowercfg \/ ReadText \/ Cleanup \/ Parse
    \/ InfoPrint \/ BetterImport \/ BetterRender \/ DefaultHandler \/ RawHandler
    \/ SuccessMessage \/ OpenBrowser

Spec == Init /\ [][Next]_vars

----------------------------------------------------------------------------
(* Vocabulary of the properties                                            *)

\* two characters that differ at most in case
SameLetter(a, b) ==
    \/ a = b
    \/ \E i \in 1..Len(Uppers) : {a, b} = {Uppers[i], Lowers[i]}

\* case-insensitive equality of two strings
SameIgnoringCase(s, t) ==
    /\ Len(s) = Len(t)
    /\ \A i \in 1..Len(s) : SameLetter(s[i], t[i])

NamesFormat(s, f) == SameIgnoringCase(s, ReportFormatValue(f))

ValidFormatString(s) == \E f \in ReportFormat : NamesFormat(s, f)

Count(log, e) == Cardinality({i \in 1..Len(log) : log[i] = e})

Printed(label) == \E i \in 1..Len(stdout) : stdout[i].label = label

PrintedError(text) ==
    \E i \in 1..Len(stdout) : stdout[i].label = "Error" /\ stdout[i].value = <<text>>

Called(e) == Count(calls, e) > 0

SupplierCalls == Count(calls, "_get_battery_report")
SubprocessCalls == Count(calls, "subprocess.run")
BrowserOpens == Count(calls, "webbrowser.open")

InAcquirerBlock == pc \in {"acq_subprocess", "acq_read", "acq_cleanup"}

ReportRun == argv.cmd = "report" /\ ~argv.version

\* the report command is past the branch of lines 184-189
PastDispatch == Called("dispatch") /\ pc # "get_report"

----------------------------------------------------------------------------
\* C1: in a run of report, the report supplier _get_battery_report is called
\* at most once, and it is called exactly when the format is one whose
\* needs_report_obj is true, which is exactly BETTER; a DEFAULT or RAW run
\* never calls it, never parses and never holds a BatteryReport.
C1_SupplierIffNeeded ==
    ReportRun =>
      /\ SupplierCalls <= 1
      /\ (SupplierCalls = 1 => format_enum = "BETTER")
      /\ (format_enum \in {"DEFAULT", "RAW"} =>
            /\ SupplierCalls = 0
            /\ ~Called("BatteryReport.parse")
            /\ report_obj = <<>>)
      /\ (PastDispatch =>
            /\ (SupplierCalls = 1 <=> needs_report_obj(format_enum))
            /\ (SupplierCalls = 1 <=> format_enum = "BETTER"))

C1_Witness ==
    /\ ReportRun /\ pc = "done" /\ format_enum = "BETTER"
    /\ SupplierCalls = 1 /\ report_obj # <<>>

\* C2: a format string that names none of better/default/raw, compared
\* case-insensitively, ends the report command with the invalid-format error
\* (exit code 1, the valid values listed) and at no point of the run is a
\* directory or artifact created, a subprocess run or the browser opened;
\* a string that names a variant in any case is accepted as that variant.
C2_InvalidFormatRejected ==
    ReportRun =>
      /\ (~ValidFormatString(argv.format) =>
            /\ format_enum = "None"
            /\ ~Called("mkdir") /\ ~dir_created /\ artifacts = {}
            /\ ~temp_dir /\ ~Called("TemporaryDirectory")
            /\ SubprocessCalls = 0 /\ BrowserOpens = 0
            /\ (pc = "done" =>
                  /\ exit_code = 1 /\ exc = "Exit"
                  /\ \E i \in 1..Len(stdout) :
                        /\ stdout[i].label = "Invalid format"
                        /\ stdout[i].value[2] =
                             { <<"b","e","t","t","e","r">>,
                               <<"d","e","f","a","u","l","t">>,
                               <<"r","a","w">> }))
      /\ \A f \in ReportFormat :
            NamesFormat(argv.format, f) /\ Called("_validate_report_format")
               => format_enum = f

C2_Witness ==
    /\ ReportRun /\ pc = "done" /\ argv.format = <<"b","o","g","u","s">>
    /\ exit_code = 1 /\ Printed("Invalid format")

\* C3: on a host that is not Windows, a run of info or of report with a valid
\* format (the parent of the output path being absent or a directory) invokes
\* no subprocess, writes nothing (no temporary location, no output directory,
\* no artifact) and ends with a PlatformError reported and exit code 1.
C3_UnsupportedPlatformWritesNothing ==
    /\ ~is_platform_windows(host.system)
    /\ ~argv.version
    /\ parent_kind # "file"
    /\ (argv.cmd = "info" \/ ValidFormatString(argv.format))
    =>
    /\ SubprocessCalls = 0
    /\ ~temp_dir /\ ~Called("TemporaryDirectory")
    /\ ~dir_created
    /\ artifacts = {}
    /\ (pc = "done" => exit_code = 1 /\ PrintedError("PlatformError"))

\* C4: on Windows with a working powercfg, info exits with code 0 and its
\* output carries the labels Computer Name, Scan Time, Design Capacity and
\* Full Charge Capacity.
C4_InfoPrintsAllLabels ==
    /\ argv.cmd = "info" /\ ~argv.version
    /\ is_platform_windows(host.system) /\ host.powercfg = "ok"
    /\ pc = "done"
    =>
    /\ exit_code = 0
    /\ \A l \in {"Computer Name", "Scan Time", "Design Capacity", "Full Charge Capacity"} :
          Printed(l)

\* C5: on Windows with a working powercfg and a usable parent directory, a
\* report run with RAW or DEFAULT ends successfully, its final path is the
\* output path with the variant's extension (.xml for RAW, .html for DEFAULT)
\* and the artifact exists at that path.
C5_DirectFormatsSucceed ==
    /\ ReportRun /\ format_enum \in {"DEFAULT", "RAW"}
    /\ is_platform_windows(host.system) /\ host.powercfg = "ok"
    /\ parent_kind = "dir"
    /\ pc = "done"
    =>
    /\ exit_code = 0
    /\ final_path =
         <<[resolve(argv.output) EXCEPT
              !.suffix = IF format_enum = "RAW" THEN ".xml" ELSE ".html"]>>
    /\ final_path # <<>> /\ final_path[1] \in artifacts

\* C6: once powercfg has exited with a non-zero status, the output file is
\* never read, no content reaches the caller, nothing is parsed, no artifact
\* is written, no success message is printed, the browser is not opened, the
\* utility is not run again, and the run ends with the failure.
C6_NonZeroExitIsAnError ==
    /\ SubprocessCalls <= 1
    /\ (returncode > 0 =>
          /\ ~Called("read_text")
          /\ content = "None"
          /\ ~Called("BatteryReport.parse") /\ report_obj = <<>>
          /\ artifacts = {} /\ final_path = <<>>
          /\ ~Printed("Report generated successfully at")
          /\ BrowserOpens = 0
          /\ pc \in {"acq_cleanup", "done"}
          /\ (pc = "done" => exit_code = 1 /\ exc = "CalledProcessError"))

C6_Witness ==
    /\ pc = "done" /\ returncode > 0 /\ host.powercfg = "fails_partial"
    /\ exc = "CalledProcessError"

\* C7: outside the TemporaryDirectory block of the acquirer neither the
\* temporary directory nor the report file in it exists, whichever way the
\* block was left; in particular in every terminal state of a run.
C7_TempLocationRemoved ==
    ~InAcquirerBlock => ~temp_dir /\ temp_file = "none"

C7_Witness ==
    /\ pc = "done" /\ Called("TemporaryDirectory.cleanup")
    /\ exc = "UnicodeDecodeError" /\ ~temp_dir

\* C8: ReportFormat has exactly the variants BETTER, DEFAULT and RAW with
\* (extension, needs record, viewable) = (.html, yes, yes), (.html, no, yes),
\* (.xml, no, no); cli.py and formats.py agree on all of it; the registry has
\* exactly one handler per variant, and the handler a run invokes is the one
\* registered for the run's format.
C8_Table(f) ==
    CASE f = "BETTER"  -> <<".html", TRUE, TRUE>>
      [] f = "DEFAULT" -> <<".html", FALSE, TRUE>>
      [] f = "RAW"     -> <<".xml", FALSE, FALSE>>

C8_FormatAttributes ==
    /\ ReportFormat = {"BETTER", "DEFAULT", "RAW"}
    /\ formats_ReportFormat = ReportFormat
    /\ \A f \in ReportFormat :
          /\ <<extension(f), needs_report_obj(f), browser_viewable(f)>> = C8_Table(f)
          /\ <<formats_extension(f), formats_needs_report_obj(f),
               formats_browser_viewable(f)>> = C8_Table(f)
          /\ formats_ReportFormatValue(f) = ReportFormatValue(f)
          /\ Cardinality({e \in FORMAT_HANDLERS : e[1] = f}) = 1
    /\ \A e \in FORMAT_HANDLERS : e[1] \in ReportFormat
    /\ (format_enum # "None" => format_enum \in ReportFormat)
    /\ \A e \in FORMAT_HANDLERS : Called(e[2]) => e[1] = format_enum
    /\ (final_path # <<>> => final_path[1].suffix = C8_Table(format_enum)[1])

C8_Witness ==
    /\ pc = "done" /\ format_enum = "BETTER" /\ final_path # <<>>
    /\ Called("_generate_better_report")

\* C9 as stated: with the renderer unavailable, every BETTER report run (the
\* parent of the output path being absent or a directory) ends with the
\* missing-dependency message and exit code 1, not a crash, with no artifact
\* and no browser; DEFAULT and RAW runs never reach the import.
C9_Original ==
    /\ (ReportRun /\ ~host.renderer /\ format_enum = "BETTER" /\ parent_kind # "file" =>
          /\ artifacts = {} /\ BrowserOpens = 0
          /\ (pc = "done" =>
                /\ exit_code = 1 /\ exc = "Exit"
                /\ PrintedError("Missing extra dependencies")))
    /\ (format_enum \in {"DEFAULT", "RAW"} => ~Called("import plotly"))

\* C9 amended: with the renderer unavailable, a BETTER report run never
\* writes an artifact, never prints success, never opens the browser and ends
\* with exit code 1; it ends with the missing-dependency message (an Exit,
\* not a crash) whenever the report supplier returned a record, the earlier
\* stages ending the run with their own error otherwise; DEFAULT and RAW runs
\* never reach the import.
C9_MissingDependencyReported ==
    /\ (ReportRun /\ ~host.renderer /\ format_enum = "BETTER" =>
          /\ artifacts = {} /\ BrowserOpens = 0 /\ final_path = <<>>
          /\ ~Printed("Report generated successfully at")
          /\ (pc = "done" => exit_code = 1)
          /\ (pc = "done" /\ report_obj # <<>> =>
                /\ exc = "Exit"
                /\ PrintedError("Missing extra dependencies"))
          /\ (pc = "done" /\ PrintedError("Missing extra dependencies") =>
                report_obj # <<>>))
    /\ (format_enum \in {"DEFAULT", "RAW"} => ~Called("import plotly"))

C9_Witness ==
    /\ ReportRun /\ ~host.renderer /\ format_enum = "BETTER" /\ pc = "done"
    /\ report_obj # <<>> /\ exc = "Exit"
    /\ PrintedError("Missing extra dependencies")

\* C10: the browser is opened at most once per run, as the last call of the
\* run, right after the success message and with the final path returned by
\* the handler, only for a browser-viewable format (never RAW) and never in a
\* run with an error (invalid format, platform error, subprocess failure,
\* missing dependency, non-zero exit).
C10_BrowserOnlyAfterSuccess ==
    /\ BrowserOpens <= 1
    /\ (BrowserOpens = 1 =>
          /\ calls[Len(calls)] = "webbrowser.open"
          /\ calls[Len(calls) - 1] = "print_success"
          /\ Printed("Report generated successfully at")
          /\ final_path # <<>>
          /\ format_enum \in {"BETTER", "DEFAULT"}
          /\ ValidFormatString(argv.format)
          /\ is_platform_windows(host.system)
          /\ returncode = 0
          /\ (format_enum = "BETTER" => host.renderer)
          /\ pc = "done" /\ exit_code = 0 /\ exc = "None")
    /\ (format_enum = "RAW" => BrowserOpens = 0)
    /\ (pc = "done" /\ exit_code # 0 => BrowserOpens = 0)

C10_Witness ==
    /\ BrowserOpens = 1 /\ pc = "done" /\ format_enum = "BETTER" /\ exit_code = 0

====
